---- MODULE Spec2Model ----
(***************************************************************************)
(* Payment-dispute transaction engine (ChosunOne/coding_test_k).           *)
(*                                                                         *)
(* Four specifications over one set of variables:                          *)
(*   Spec          one Client driven directly by a stream of               *)
(*                 RawTransactions (Client::process_activity, as the unit  *)
(*                 tests of client.rs drive it);                           *)
(*   WindowSpec    the same, with a stream long enough to fill the dispute     *)
(*                 window of WINDOW_SIZE entries;                          *)
(*   DispatchSpec  Processor::process_transactions: the dispatcher task,   *)
(*                 the bounded mpsc channels and one spawned worker task   *)
(*                 per client id, under every interleaving;                *)
(*   F64Spec       one Client driven directly, amounts and balances being  *)
(*                 f64 values, computed as IEEE 754 computes them.         *)
(*                                                                         *)
(* Amounts.  In the first three, a raw amount (RawTransaction.amount) is   *)
(* an integer number of 0.00001 and a balance or a stored amount is an     *)
(* integer number of 0.0001: decimal arithmetic, exact.  In F64Spec they   *)
(* are f64 values.                                                         *)
(* Option<f64> is a sequence of length 0 (None) or 1 (Some).               *)
(***************************************************************************)
EXTENDS Integers, Sequences, FiniteSets, TLC

VARIABLES
    tasks,           \* Seq of worker states: a Client plus the locals of process_activity
    chans,           \* Seq of mpsc channels; chans[i] feeds tasks[i]
    client_senders,  \* Processor.client_senders : client id -> channel index
    client_handles,  \* Processor.client_handles : client id -> task index
    pc,              \* where process_transactions is; without a dispatcher, "direct"
                     \* (exact decimal arithmetic) or "f64"
    cur,             \* the transaction of a suspended send, as Option
    consumed,        \* history: the input transactions read so far
    applied,         \* history: per task, the transactions handed to process_transaction
    joining,         \* the task handles drained into join_all
    result,          \* the Vec<Client> returned by process_transactions, in task order
    nextTx           \* environment: the next unused tx id

vars == <<tasks, chans, client_senders, client_handles, pc, cur, consumed,
          applied, joining, result, nextTx>>

----------------------------------------------------------------------------
(* Bounds of the model *)

\* tx ids 1..MaxTx are available to the deposits and withdrawals of Spec
MaxTx == 4
\* tx ids 1..MaxWindowTx are available to them in WindowSpec
MaxWindowTx == 2
\* number of unconstrained input transactions of DispatchSpec
MaxFree == 3
\* number of further deposits of client 1 that may follow them
MaxFill == 8
\* tx ids 1..MaxF64Tx are available to the deposits and withdrawals of F64Spec
MaxF64Tx == 3

----------------------------------------------------------------------------
(* Program constants *)

WINDOW_SIZE == 1000
CHANNEL_CAPACITY == 10

\* the tx ids of the deposits of a burst start above BurstBase (disjoint from 1..MaxTx)
BurstBase == 100 * WINDOW_SIZE

ClientIds == {1, 2}
None == <<>>
Some(x) == <<x>>
\* 0.0001 and 0.00025 (truncated to 0.0002), in units of 0.00001
RawAmounts == {10, 25}

----------------------------------------------------------------------------
(* f64 *)

\* An f64 is modelled exactly: sign, significand and exponent, the value
\* being (-1)^neg * m * 2^e, with m a natural number that is odd unless the
\* value is 0. Every operation computes the exact result and rounds it to 53
\* significant bits, to nearest and ties to even, as IEEE 754 does.
\* Infinities, NaN, subnormal numbers and the sign of zero are out of the
\* range of the amounts of the model.

\* Natural numbers of any size: sequences of digits in base 2^13, lowest
\* digit first, without leading zero digits.
RECURSIVE nat_norm(_)
nat_norm(a) ==
    IF a # <<>> /\ a[Len(a)] = 0 THEN nat_norm(SubSeq(a, 1, Len(a) - 1)) ELSE a

RECURSIVE nat_of(_)
nat_of(n) == IF n = 0 THEN <<>> ELSE <<n % 2^13>> \o nat_of(n \div 2^13)

\* the number of bits of a
nat_bits(a) ==
    IF a = <<>> THEN 0
    ELSE 13 * (Len(a) - 1) + CHOOSE k \in 1..13 : 2^(k - 1) <= a[Len(a)] /\ a[Len(a)] < 2^k

\* bit k of a, the lowest being bit 1
nat_bit(a, k) ==
    LET i == (k - 1) \div 13 + 1
    IN  IF i > Len(a) THEN 0 ELSE (a[i] \div 2^((k - 1) % 13)) % 2

nat_digit(a, i) == IF i \in DOMAIN a THEN a[i] ELSE 0

\* a * 2^d
nat_shl(a, d) ==
    LET q == d \div 13
        r == d % 13
    IN  nat_norm([i \in 1..(Len(a) + q + 1) |->
                     IF i <= q THEN 0
                     ELSE (nat_digit(a, i - q) % 2^(13 - r)) * 2^r
                          + nat_digit(a, i - q - 1) \div 2^(13 - r)])

\* a / 2^d, rounded down
nat_shr(a, d) ==
    LET q == d \div 13
        r == d % 13
    IN  nat_norm([i \in 1..(Len(a) - q) |->
                     nat_digit(a, i + q) \div 2^r
                     + (nat_digit(a, i + q + 1) % 2^r) * 2^(13 - r)])

RECURSIVE nat_add_from(_, _, _, _)
nat_add_from(a, b, k, carry) ==
    IF k > Len(a) /\ k > Len(b) THEN nat_of(carry)
    ELSE LET s == nat_digit(a, k) + nat_digit(b, k) + carry
         IN  <<s % 2^13>> \o nat_add_from(a, b, k + 1, s \div 2^13)

nat_add(a, b) == nat_add_from(a, b, 1, 0)

RECURSIVE nat_sub_from(_, _, _, _)
nat_sub_from(a, b, k, borrow) ==
    IF k > Len(a) THEN <<>>
    ELSE LET d == nat_digit(a, k) - nat_digit(b, k) - borrow
         IN  <<d % 2^13>> \o nat_sub_from(a, b, k + 1, IF d < 0 THEN 1 ELSE 0)

\* a - b, for a >= b
nat_sub(a, b) == nat_norm(nat_sub_from(a, b, 1, 0))

nat_less(a, b) ==
    \/ Len(a) < Len(b)
    \/ /\ Len(a) = Len(b)
       /\ \E k \in DOMAIN a :
             /\ a[k] < b[k]
             /\ \A j \in (k + 1)..Len(a) : a[j] = b[j]

RECURSIVE nat_mul_from(_, _, _, _)
nat_mul_from(a, c, k, carry) ==
    IF k > Len(a) THEN nat_of(carry)
    ELSE LET s == a[k] * c + carry
         IN  <<s % 2^13>> \o nat_mul_from(a, c, k + 1, s \div 2^13)

\* a * c, for a natural number c of at most 17 bits
nat_mul(a, c) == nat_mul_from(a, c, 1, 0)

RECURSIVE nat_div_from(_, _, _, _)
nat_div_from(a, c, k, r) ==
    IF k = 0 THEN [q |-> <<>>, r |-> r]
    ELSE LET r2 == r * 2^13 + a[k]
             rest == nat_div_from(a, c, k - 1, r2 % c)
         IN  [q |-> Append(rest.q, r2 \div c), r |-> rest.r]

\* quotient and remainder of a by c, for a natural number c of at most 17 bits
nat_divmod(a, c) ==
    LET d == nat_div_from(a, c, Len(a), 0) IN [q |-> nat_norm(d.q), r |-> d.r]

F64Zero == [neg |-> FALSE, m |-> <<>>, e |-> 0]

\* the f64 (-1)^neg * m * 2^e, for m of at most 53 bits
f64_of(neg, m, e) ==
    IF m = <<>> THEN F64Zero
    ELSE LET z == CHOOSE k \in 0..nat_bits(m) :
                      nat_bit(m, k + 1) = 1 /\ \A j \in 1..k : nat_bit(m, j) = 0
         IN  [neg |-> neg, m |-> nat_shr(m, z), e |-> e + z]

\* the f64 nearest to (-1)^neg * (n + x) * 2^e, where x is 0 or, when sticky, a
\* fraction strictly between 0 and 1 (then n has more than 54 bits)
f64_round(neg, n, e, sticky) ==
    IF nat_bits(n) <= 53 THEN f64_of(neg, n, e)
    ELSE LET d == nat_bits(n) - 53
             kept == nat_shr(n, d)
             rest == sticky \/ \E k \in 1..(d - 1) : nat_bit(n, k) = 1
             up == nat_bit(n, d) = 1 /\ (rest \/ nat_bit(kept, 1) = 1)
         IN  f64_of(neg, IF up THEN nat_add(kept, <<1>>) ELSE kept, e + d)

f64_neg(x) == IF x.m = <<>> THEN x ELSE [x EXCEPT !.neg = ~@]

\* x + y
f64_add(x, y) ==
    LET e == IF x.e < y.e THEN x.e ELSE y.e
        a == nat_shl(x.m, x.e - e)
        b == nat_shl(y.m, y.e - e)
    IN  IF x.m = <<>> THEN y
        ELSE IF y.m = <<>> THEN x
        ELSE IF x.neg = y.neg THEN f64_round(x.neg, nat_add(a, b), e, FALSE)
        ELSE IF nat_less(a, b) THEN f64_round(y.neg, nat_sub(b, a), e, FALSE)
        ELSE f64_round(x.neg, nat_sub(a, b), e, FALSE)

\* x - y
f64_sub(x, y) == f64_add(x, f64_neg(y))

\* x < y
f64_lt(x, y) == f64_sub(x, y).neg

\* x * c, for a natural number c of at most 17 bits
f64_mul(x, c) == f64_round(x.neg, nat_mul(x.m, c), x.e, FALSE)

\* x / c, for a natural number c of at most 17 bits: the quotient is computed
\* with 75 bits more than x has
f64_div(x, c) ==
    LET d == nat_divmod(nat_shl(x.m, 75), c)
    IN  f64_round(x.neg, d.q, x.e - 75, d.r # 0)

\* f64::floor
f64_floor(x) ==
    IF x.e >= 0 THEN x
    ELSE LET q == nat_shr(x.m, 0 - x.e)
         IN  f64_of(x.neg, IF x.neg THEN nat_add(q, <<1>>) ELSE q, 0)

\* the f64 that the decimal text of n / scale denotes
f64_parse(n, scale) ==
    f64_div(f64_of(n < 0, nat_of(IF n < 0 THEN 0 - n ELSE n), 0), scale)

----------------------------------------------------------------------------
(* Arithmetic of amounts and balances.  Spec, WindowSpec and DispatchSpec     *)
(* compute with decimal numbers exactly, as integers; F64Spec (pc = "f64")  *)
(* computes with f64, as the code does.                                     *)

Zero == IF pc = "f64" THEN F64Zero ELSE 0

Plus(x, y) == IF pc = "f64" THEN f64_add(x, y) ELSE x + y

Minus(x, y) == IF pc = "f64" THEN f64_sub(x, y) ELSE x - y

Less(x, y) == IF pc = "f64" THEN f64_lt(x, y) ELSE x < y

----------------------------------------------------------------------------
(* transaction.rs *)

\* (num * 10^4).floor() / 10^4; with exact decimals, of a number of 0.00001 as
\* a number of 0.0001. The overflow guard (|num| > f64::MAX / 10^4) is out of
\* the model's range.
truncate_to_decimal_places(num) ==
    IF pc = "f64" THEN f64_div(f64_floor(f64_mul(num, 10000)), 10000) ELSE num \div 10

RawTransaction(variant, client_id, tx_id, amount) ==
    [variant |-> variant, client_id |-> client_id, tx_id |-> tx_id, amount |-> amount]

\* TryFrom<RawTransaction> for Deposit: Some(deposit) or None
DepositTryFrom(value) ==
    IF value.variant = "Deposit" /\ value.amount # None /\ ~Less(value.amount[1], Zero)
    THEN Some([kind |-> "Deposit", client_id |-> value.client_id, tx_id |-> value.tx_id,
               amount |-> truncate_to_decimal_places(value.amount[1]),
               disputed |-> FALSE, resolved |-> FALSE])
    ELSE None

\* TryFrom<RawTransaction> for Withdrawal
WithdrawalTryFrom(value) ==
    IF value.variant = "Withdrawal" /\ value.amount # None /\ ~Less(value.amount[1], Zero)
    THEN Some([kind |-> "Withdrawal", client_id |-> value.client_id, tx_id |-> value.tx_id,
               amount |-> truncate_to_decimal_places(value.amount[1]),
               disputed |-> FALSE, resolved |-> FALSE, failed |-> FALSE])
    ELSE None

\* TryFrom<RawTransaction> for Dispute, Resolve and Chargeback
ReferenceTryFrom(value, variant) ==
    IF value.variant = variant /\ value.amount = None
    THEN Some([client_id |-> value.client_id, tx_id |-> value.tx_id])
    ELSE None

----------------------------------------------------------------------------
(* client.rs: Client *)

\* the serializer of the three balances of a Client; with exact decimals a
\* balance is a number of 0.0001, that is ten times as many 0.00001
truncate_to_4_decimals(value) ==
    IF pc = "f64" THEN truncate_to_decimal_places(value)
    ELSE truncate_to_decimal_places(10 * value)

\* Client::new, with the locals of process_activity before its loop
NewClient(id) ==
    [id |-> id, available_balance |-> Zero, held_balance |-> Zero, total_balance |-> Zero,
     locked |-> FALSE,
     processed_transactions |-> <<>>,   \* function tx id -> stored record
     dispute_window |-> <<>>,
     pending_total_balance |-> Zero, pending_held_balance |-> Zero,
     pending_available_balance |-> Zero,
     state |-> "running"]

\* HashMap::insert
Insert(map, key, val) ==
    [k \in DOMAIN map \cup {key} |-> IF k = key THEN val ELSE map[k]]

\* HashMap::remove
Remove(map, key) == [k \in DOMAIN map \ {key} |-> map[k]]

\* a mutant of process_deposit: the tx id goes to the front of the window
process_deposit_pushes_front(w, deposit) ==
    IF deposit.client_id # w.id THEN w
    ELSE [w EXCEPT !.pending_total_balance = @ + deposit.amount,
                   !.pending_available_balance = @ + deposit.amount,
                   !.dispute_window = <<deposit.tx_id>> \o @,
                   !.processed_transactions = Insert(@, deposit.tx_id, deposit)]

process_deposit(w, deposit) ==
    IF deposit.client_id # w.id THEN w
    ELSE [w EXCEPT !.pending_total_balance = Plus(@, deposit.amount),
                   !.pending_available_balance = Plus(@, deposit.amount),
                   !.dispute_window = Append(@, deposit.tx_id),
                   !.processed_transactions = Insert(@, deposit.tx_id, deposit)]

\* a mutant of process_withdrawal: the amount is compared with available
process_withdrawal_checks_available(w, withdrawal) ==
    IF withdrawal.client_id # w.id THEN w
    ELSE IF w.pending_available_balance < withdrawal.amount
    THEN [w EXCEPT !.processed_transactions =
                       Insert(@, withdrawal.tx_id, [withdrawal EXCEPT !.failed = TRUE])]
    ELSE [w EXCEPT !.pending_total_balance = @ - withdrawal.amount,
                   !.pending_available_balance = @ - withdrawal.amount,
                   !.dispute_window = Append(@, withdrawal.tx_id),
                   !.processed_transactions = Insert(@, withdrawal.tx_id, withdrawal)]

process_withdrawal(w, withdrawal) ==
    IF withdrawal.client_id # w.id THEN w
    ELSE IF Less(w.pending_total_balance, withdrawal.amount)
    THEN [w EXCEPT !.processed_transactions =
                       Insert(@, withdrawal.tx_id, [withdrawal EXCEPT !.failed = TRUE])]
    ELSE [w EXCEPT !.pending_total_balance = Minus(@, withdrawal.amount),
                   !.pending_available_balance = Minus(@, withdrawal.amount),
                   !.dispute_window = Append(@, withdrawal.tx_id),
                   !.processed_transactions = Insert(@, withdrawal.tx_id, withdrawal)]

process_dispute(w, dispute) ==
    IF dispute.tx_id \notin DOMAIN w.processed_transactions THEN w
    ELSE LET tx == w.processed_transactions[dispute.tx_id] IN
         IF tx.disputed \/ tx.resolved \/ dispute.client_id # tx.client_id THEN w
         ELSE IF tx.kind = "Deposit"
         THEN [w EXCEPT !.processed_transactions[dispute.tx_id].disputed = TRUE,
                        !.pending_held_balance = Plus(@, tx.amount),
                        !.pending_available_balance = Minus(@, tx.amount)]
         ELSE IF ~tx.failed
         THEN [w EXCEPT !.processed_transactions[dispute.tx_id].disputed = TRUE,
                        !.pending_held_balance = Minus(@, tx.amount),
                        !.pending_available_balance = Plus(@, tx.amount)]
         ELSE [w EXCEPT !.processed_transactions[dispute.tx_id].disputed = TRUE]

\* a mutant of process_resolve: the resolve of a deposit locks the client
process_resolve_locks(w, resolve, tx) ==
    LET found == tx # None \/ resolve.tx_id \in DOMAIN w.processed_transactions
        t == IF tx # None THEN tx[1] ELSE w.processed_transactions[resolve.tx_id]
        marked == IF tx # None THEN w
                  ELSE [w EXCEPT !.processed_transactions[resolve.tx_id].resolved = TRUE]
    IN  IF ~found THEN w
        ELSE IF ~t.disputed \/ t.resolved \/ resolve.client_id # t.client_id THEN w
        ELSE IF t.kind = "Deposit"
        THEN [marked EXCEPT !.pending_held_balance = @ - t.amount,
                            !.pending_available_balance = @ + t.amount,
                            !.locked = TRUE]
        ELSE IF ~t.failed
        THEN [marked EXCEPT !.pending_held_balance = @ + t.amount,
                            !.pending_available_balance = @ - t.amount]
        ELSE marked

\* a mutant of process_resolve: the failed flag of a withdrawal is not looked at
process_resolve_ignores_failed(w, resolve, tx) ==
    LET found == tx # None \/ resolve.tx_id \in DOMAIN w.processed_transactions
        t == IF tx # None THEN tx[1] ELSE w.processed_transactions[resolve.tx_id]
        marked == IF tx # None THEN w
                  ELSE [w EXCEPT !.processed_transactions[resolve.tx_id].resolved = TRUE]
    IN  IF ~found THEN w
        ELSE IF ~t.disputed \/ t.resolved \/ resolve.client_id # t.client_id THEN w
        ELSE IF t.kind = "Deposit"
        THEN [marked EXCEPT !.pending_held_balance = @ - t.amount,
                            !.pending_available_balance = @ + t.amount]
        ELSE [marked EXCEPT !.pending_held_balance = @ + t.amount,
                            !.pending_available_balance = @ - t.amount]

\* tx is the Option<&mut Transaction> argument: with Some(record) the record
\* is the caller's local copy, so setting its resolved flag is not kept.
process_resolve(w, resolve, tx) ==
    LET found == tx # None \/ resolve.tx_id \in DOMAIN w.processed_transactions
        t == IF tx # None THEN tx[1] ELSE w.processed_transactions[resolve.tx_id]
        marked == IF tx # None THEN w
                  ELSE [w EXCEPT !.processed_transactions[resolve.tx_id].resolved = TRUE]
    IN  IF ~found THEN w
        ELSE IF ~t.disputed \/ t.resolved \/ resolve.client_id # t.client_id THEN w
        ELSE IF t.kind = "Deposit"
        THEN [marked EXCEPT !.pending_held_balance = Minus(@, t.amount),
                            !.pending_available_balance = Plus(@, t.amount)]
        ELSE IF ~t.failed
        THEN [marked EXCEPT !.pending_held_balance = Plus(@, t.amount),
                            !.pending_available_balance = Minus(@, t.amount)]
        ELSE marked

\* a mutant of process_chargeback: the disputed flag is not looked at
process_chargeback_ignores_disputed(w, chargeback) ==
    IF chargeback.tx_id \notin DOMAIN w.processed_transactions THEN w
    ELSE LET tx == w.processed_transactions[chargeback.tx_id] IN
         IF tx.resolved \/ chargeback.client_id # tx.client_id THEN w
         ELSE IF tx.kind = "Deposit"
         THEN [w EXCEPT !.processed_transactions[chargeback.tx_id].resolved = TRUE,
                        !.pending_held_balance = @ - tx.amount,
                        !.pending_total_balance = @ - tx.amount,
                        !.locked = TRUE]
         ELSE IF ~tx.failed
         THEN [w EXCEPT !.processed_transactions[chargeback.tx_id].resolved = TRUE,
                        !.pending_held_balance = @ + tx.amount,
                        !.pending_total_balance = @ + tx.amount,
                        !.locked = TRUE]
         ELSE [w EXCEPT !.processed_transactions[chargeback.tx_id].resolved = TRUE,
                        !.locked = TRUE]

\* a mutant of process_chargeback: the chargeback of a deposit does not lock
process_chargeback_without_lock(w, chargeback) ==
    IF chargeback.tx_id \notin DOMAIN w.processed_transactions THEN w
    ELSE LET tx == w.processed_transactions[chargeback.tx_id] IN
         IF ~tx.disputed \/ tx.resolved \/ chargeback.client_id # tx.client_id THEN w
         ELSE IF tx.kind = "Deposit"
         THEN [w EXCEPT !.processed_transactions[chargeback.tx_id].resolved = TRUE,
                        !.pending_held_balance = @ - tx.amount,
                        !.pending_total_balance = @ - tx.amount]
         ELSE IF ~tx.failed
         THEN [w EXCEPT !.processed_transactions[chargeback.tx_id].resolved = TRUE,
                        !.pending_held_balance = @ + tx.amount,
                        !.pending_total_balance = @ + tx.amount,
                        !.locked = TRUE]
         ELSE [w EXCEPT !.processed_transactions[chargeback.tx_id].resolved = TRUE,
                        !.locked = TRUE]

\* a mutant of process_chargeback: the total is not updated
process_chargeback_keeps_total(w, chargeback) ==
    IF chargeback.tx_id \notin DOMAIN w.processed_transactions THEN w
    ELSE LET tx == w.processed_transactions[chargeback.tx_id] IN
         IF ~tx.disputed \/ tx.resolved \/ chargeback.client_id # tx.client_id THEN w
         ELSE IF tx.kind = "Deposit"
         THEN [w EXCEPT !.processed_transactions[chargeback.tx_id].resolved = TRUE,
                        !.pending_held_balance = @ - tx.amount,
                        !.locked = TRUE]
         ELSE IF ~tx.failed
         THEN [w EXCEPT !.processed_transactions[chargeback.tx_id].resolved = TRUE,
                        !.pending_held_balance = @ + tx.amount,
                        !.locked = TRUE]
         ELSE [w EXCEPT !.processed_transactions[chargeback.tx_id].resolved = TRUE,
                        !.locked = TRUE]

process_chargeback(w, chargeback) ==
    IF chargeback.tx_id \notin DOMAIN w.processed_transactions THEN w
    ELSE LET tx == w.processed_transactions[chargeback.tx_id] IN
         IF ~tx.disputed \/ tx.resolved \/ chargeback.client_id # tx.client_id THEN w
         ELSE IF tx.kind = "Deposit"
         THEN [w EXCEPT !.processed_transactions[chargeback.tx_id].resolved = TRUE,
                        !.pending_held_balance = Minus(@, tx.amount),
                        !.pending_total_balance = Minus(@, tx.amount),
                        !.locked = TRUE]
         ELSE IF ~tx.failed
         THEN [w EXCEPT !.processed_transactions[chargeback.tx_id].resolved = TRUE,
                        !.pending_held_balance = Plus(@, tx.amount),
                        !.pending_total_balance = Plus(@, tx.amount),
                        !.locked = TRUE]
         ELSE [w EXCEPT !.processed_transactions[chargeback.tx_id].resolved = TRUE,
                        !.locked = TRUE]

reverse_withdrawal(w, id) ==
    IF id \notin DOMAIN w.processed_transactions THEN w
    ELSE LET tx == w.processed_transactions[id] IN
         IF tx.kind = "Withdrawal" /\ ((~tx.failed /\ ~tx.disputed) \/ tx.resolved)
         THEN [w EXCEPT !.pending_available_balance = Plus(@, tx.amount),
                        !.pending_total_balance = Plus(@, tx.amount),
                        !.processed_transactions[id].failed = TRUE]
         ELSE w

\* a mutant of finalize_transaction: the evicted record is discarded without
\* being resolved
finalize_transaction_without_resolve(w) ==
    IF w.dispute_window = <<>> THEN w
    ELSE LET id == Head(w.dispute_window)
             popped == [w EXCEPT !.dispute_window = Tail(@)]
         IN  IF id \notin DOMAIN w.processed_transactions THEN popped
             ELSE [popped EXCEPT !.processed_transactions = Remove(@, id)]

\* a mutant of finalize_transaction: the record stays in processed_transactions
finalize_transaction_keeps_record(w) ==
    IF w.dispute_window = <<>> THEN w
    ELSE LET id == Head(w.dispute_window)
             popped == [w EXCEPT !.dispute_window = Tail(@)]
         IN  IF id \notin DOMAIN w.processed_transactions THEN popped
             ELSE LET old_tx == w.processed_transactions[id] IN
                  IF old_tx.disputed /\ ~old_tx.resolved
                  THEN process_resolve(popped,
                           [client_id |-> old_tx.client_id, tx_id |-> old_tx.tx_id],
                           Some(old_tx))
                  ELSE popped

finalize_transaction(w) ==
    IF w.dispute_window = <<>> THEN w
    ELSE LET id == Head(w.dispute_window)
             popped == [w EXCEPT !.dispute_window = Tail(@)]
         IN  IF id \notin DOMAIN w.processed_transactions THEN popped
             ELSE LET old_tx == w.processed_transactions[id]
                      removed == [popped EXCEPT !.processed_transactions = Remove(@, id)]
                  IN  IF old_tx.disputed /\ ~old_tx.resolved
                      THEN process_resolve(removed,
                               [client_id |-> old_tx.client_id, tx_id |-> old_tx.tx_id],
                               Some(old_tx))
                      ELSE removed

\* dispute_window.iter().position(|&id| id == tx_id): 0 when absent, else the
\* 1-based index of the first occurrence
position(window, tx_id) ==
    IF \E i \in DOMAIN window : window[i] = tx_id
    THEN CHOOSE i \in DOMAIN window :
             window[i] = tx_id /\ \A j \in 1..(i - 1) : window[j] # tx_id
    ELSE 0

\* a mutant of reverse_loop: the loop does not stop when the total is no
\* longer negative
RECURSIVE reverse_loop_without_stop(_, _, _, _)
reverse_loop_without_stop(w, ids, k, window_start) ==
    IF k < window_start THEN w
    ELSE reverse_loop_without_stop(reverse_withdrawal(w, ids[k]), ids, k - 1, window_start)

\* the loop over ids_to_check = window.skip(window_start).rev(): k runs from
\* the newest entry down to window_start, ids holds the window cloned before the loop
RECURSIVE reverse_loop(_, _, _, _)
reverse_loop(w, ids, k, window_start) ==
    IF k < window_start \/ ~Less(w.pending_total_balance, Zero) THEN w
    ELSE reverse_loop(reverse_withdrawal(w, ids[k]), ids, k - 1, window_start)

process_transaction(w, transaction) ==
    LET f == IF Len(w.dispute_window) >= WINDOW_SIZE THEN finalize_transaction(w) ELSE w
    IN  CASE transaction.variant = "Deposit" ->
               LET d == DepositTryFrom(transaction) IN
               IF d # None THEN process_deposit(f, d[1]) ELSE f
          [] transaction.variant = "Withdrawal" ->
               LET wd == WithdrawalTryFrom(transaction) IN
               IF wd # None THEN process_withdrawal(f, wd[1]) ELSE f
          [] transaction.variant = "Dispute" ->
               LET d == ReferenceTryFrom(transaction, "Dispute") IN
               IF d # None THEN process_dispute(f, d[1]) ELSE f
          [] transaction.variant = "Resolve" ->
               LET r == ReferenceTryFrom(transaction, "Resolve") IN
               IF r # None THEN process_resolve(f, r[1], None) ELSE f
          [] transaction.variant = "Chargeback" ->
               LET c == ReferenceTryFrom(transaction, "Chargeback") IN
               IF c = None THEN f
               ELSE LET cb == process_chargeback(f, c[1])
                        window_start == position(cb.dispute_window, c[1].tx_id)
                    IN  IF window_start # 0 /\ Less(cb.pending_total_balance, Zero)
                        THEN reverse_loop(cb, cb.dispute_window,
                                          Len(cb.dispute_window), window_start)
                        ELSE cb

\* a mutant of finish: the working memory is not cleared
finish_keeps_memory(w) ==
    [w EXCEPT !.available_balance = w.pending_available_balance,
              !.held_balance = w.pending_held_balance,
              !.total_balance = w.pending_total_balance,
              !.state = "done"]

\* the statements of process_activity after its loop
finish(w) ==
    [w EXCEPT !.available_balance = w.pending_available_balance,
              !.held_balance = w.pending_held_balance,
              !.total_balance = w.pending_total_balance,
              !.dispute_window = <<>>,
              !.processed_transactions = <<>>,
              !.state = "done"]

\* a mutant of process_activity_next: the locked flag is not looked at
process_activity_next_ignores_lock(w, transaction) == process_transaction(w, transaction)

\* one iteration of the loop of process_activity on Some(transaction)
process_activity_next(w, transaction) ==
    IF w.locked THEN finish(w) ELSE process_transaction(w, transaction)

----------------------------------------------------------------------------
(* Spec: one client driven directly by a stream *)

\* the deposits and withdrawals the stream may yield next: well-formed ones of
\* the worker's client, one of another client, one without and one with a
\* negative amount
CreateEvents ==
    { RawTransaction(v, ca[1], nextTx, ca[2]) :
        v \in {"Deposit", "Withdrawal"},
        ca \in {<<1, Some(r)>> : r \in RawAmounts}
               \cup {<<2, Some(10)>>, <<1, None>>, <<1, Some(-10)>>} }

\* the disputes, resolves and chargebacks the stream may yield next; they name
\* a tx id issued so far or the next one, which is unknown to the client
ReferenceEvents ==
    { RawTransaction(v, ca[1], t, ca[2]) :
        v \in {"Dispute", "Resolve", "Chargeback"},
        t \in 1..nextTx,
        ca \in {<<1, None>>, <<2, None>>, <<1, Some(10)>>} }

Init ==
    /\ pc = "direct"
    /\ tasks = <<NewClient(1)>>
    /\ chans = <<>>
    /\ client_senders = <<>>
    /\ client_handles = <<>>
    /\ cur = None
    /\ consumed = <<>>
    /\ applied = <<>>
    /\ joining = {}
    /\ result = <<>>
    /\ nextTx = 1

dispatchVars ==
    <<chans, client_senders, client_handles, pc, cur, consumed, applied, joining, result>>

\* the stream yields a deposit or a withdrawal with a fresh tx id
Create(limit) ==
    /\ pc = "direct" /\ tasks[1].state = "running"
    /\ nextTx <= limit
    /\ \E t \in CreateEvents :
           tasks' = [tasks EXCEPT ![1] = process_activity_next(@, t)]
    /\ nextTx' = nextTx + 1
    /\ UNCHANGED dispatchVars

ActivityCreate == Create(MaxTx)

\* the stream yields a dispute, a resolve or a chargeback
ActivityReference ==
    /\ pc = "direct" /\ tasks[1].state = "running"
    /\ \E t \in ReferenceEvents :
           tasks' = [tasks EXCEPT ![1] = process_activity_next(@, t)]
    /\ UNCHANGED <<nextTx, dispatchVars>>

\* the stream ends
ActivityEnd ==
    /\ pc = "direct" /\ tasks[1].state = "running"
    /\ tasks' = [tasks EXCEPT ![1] = finish(@)]
    /\ UNCHANGED <<nextTx, dispatchVars>>

Next == ActivityCreate \/ ActivityReference \/ ActivityEnd

Spec == Init /\ [][Next]_vars

----------------------------------------------------------------------------
(* WindowSpec: the same client, with a stream long enough to fill the window *)

\* n deposits of amount 0 with tx ids BurstBase+1 .. BurstBase+n, none of
\* which finds the window full: process_deposit applied n times
burst_deposits(w, n) ==
    LET ids == [i \in 1..n |-> BurstBase + i]
        new == {BurstBase + i : i \in 1..n}
    IN  [w EXCEPT !.dispute_window = @ \o ids,
                  !.processed_transactions =
                      [k \in DOMAIN @ \cup new |->
                          IF k \in new
                          THEN [kind |-> "Deposit", client_id |-> w.id, tx_id |-> k,
                                amount |-> 0, disputed |-> FALSE, resolved |-> FALSE]
                          ELSE @[k]]]

WindowCreate == Create(MaxWindowTx)

\* the stream yields deposits of amount 0 until the window is full; it does
\* so once (the tx ids above BurstBase are used once)
ActivityBurst ==
    /\ pc = "direct" /\ tasks[1].state = "running"
    /\ ~tasks[1].locked
    /\ \A k \in DOMAIN tasks[1].dispute_window : tasks[1].dispute_window[k] <= BurstBase
    /\ tasks' = [tasks EXCEPT ![1] =
                    burst_deposits(@, WINDOW_SIZE - Len(@.dispute_window))]
    /\ UNCHANGED <<nextTx, dispatchVars>>

WindowNext == WindowCreate \/ ActivityReference \/ ActivityBurst \/ ActivityEnd

WindowSpec == Init /\ [][WindowNext]_vars

----------------------------------------------------------------------------
(* F64Spec: one client driven directly by a stream, computing in f64 *)

\* the amount cells of the rows: 0.1, 0.20005 and 0.3, in units of 0.00001
F64RawAmounts == {10000, 20005, 30000}

\* the deposits and withdrawals the stream may yield next; the reader has
\* parsed the amount cell into the nearest f64
F64CreateEvents ==
    { RawTransaction(v, 1, nextTx, Some(f64_parse(r, 100000))) :
        v \in {"Deposit", "Withdrawal"}, r \in F64RawAmounts }

\* the disputes, resolves and chargebacks the stream may yield next
F64ReferenceEvents ==
    { RawTransaction(v, 1, t, None) :
        v \in {"Dispute", "Resolve", "Chargeback"}, t \in 1..nextTx }

F64Init ==
    /\ pc = "f64"
    /\ tasks = <<NewClient(1)>>
    /\ chans = <<>>
    /\ client_senders = <<>>
    /\ client_handles = <<>>
    /\ cur = None
    /\ consumed = <<>>
    /\ applied = <<>>
    /\ joining = {}
    /\ result = <<>>
    /\ nextTx = 1

F64Create ==
    /\ pc = "f64" /\ tasks[1].state = "running"
    /\ nextTx <= MaxF64Tx
    /\ \E t \in F64CreateEvents :
           tasks' = [tasks EXCEPT ![1] = process_activity_next(@, t)]
    /\ nextTx' = nextTx + 1
    /\ UNCHANGED dispatchVars

F64Reference ==
    /\ pc = "f64" /\ tasks[1].state = "running"
    /\ \E t \in F64ReferenceEvents :
           tasks' = [tasks EXCEPT ![1] = process_activity_next(@, t)]
    /\ UNCHANGED <<nextTx, dispatchVars>>

F64End ==
    /\ pc = "f64" /\ tasks[1].state = "running"
    /\ tasks' = [tasks EXCEPT ![1] = finish(@)]
    /\ UNCHANGED <<nextTx, dispatchVars>>

F64Next == F64Create \/ F64Reference \/ F64End

F64Spec == F64Init /\ [][F64Next]_vars

----------------------------------------------------------------------------
(* processor.rs: Processor, the mpsc channels and the spawned workers *)

\* the whole of process_activity on a finite stream
RECURSIVE process_activity(_, _)
process_activity(w, activity_stream) ==
    IF activity_stream = <<>> \/ w.locked THEN finish(w)
    ELSE process_activity(process_transaction(w, Head(activity_stream)),
                          Tail(activity_stream))

\* the Client a worker task returns through its JoinHandle
ClientOf(w) ==
    [id |-> w.id, available_balance |-> w.available_balance,
     held_balance |-> w.held_balance, total_balance |-> w.total_balance,
     locked |-> w.locked, processed_transactions |-> w.processed_transactions,
     dispute_window |-> w.dispute_window]

\* a mutant of channel: the buffer has room for one message more
channel_with_one_more(capacity) ==
    [buf |-> <<>>, capacity |-> capacity + 1, rx_dropped |-> FALSE, tx_dropped |-> FALSE]

\* tokio::sync::mpsc::channel(10)
channel(capacity) ==
    [buf |-> <<>>, capacity |-> capacity, rx_dropped |-> FALSE, tx_dropped |-> FALSE]

\* a mutant of push: the message goes to the front
push_front(ch, transaction) == [ch EXCEPT !.buf = <<transaction>> \o @]

\* Sender::send on a channel with room: the message goes to the back
push(ch, transaction) == [ch EXCEPT !.buf = Append(@, transaction)]

\* Receiver::recv on a channel that holds a message yields the front one
front(ch) == Head(ch.buf)

\* a mutant of pop: the receiver is dropped after the first message
pop_drops_rx(ch) == [ch EXCEPT !.buf = <<>>, !.rx_dropped = TRUE]

\* a mutant of pop: the newest message is removed instead of the received one
pop_back(ch) == [ch EXCEPT !.buf = SubSeq(@, 1, Len(@) - 1)]

\* ... and removes it from the channel
pop(ch) == [ch EXCEPT !.buf = Tail(@)]

\* the Receiver is dropped with the stream when process_activity returns
drop_rx(ch) == [ch EXCEPT !.buf = <<>>, !.rx_dropped = TRUE]

\* a mutant of IsVacant: every transaction finds the entry vacant
always_vacant(handles, client_id) == TRUE

\* Entry::Vacant for client_handles.entry(client_id)
IsVacant(handles, client_id) == client_id \notin DOMAIN handles

\* the client id of the deposit or withdrawal of the input that has tx id t
TxClient(t) ==
    consumed[CHOOSE k \in DOMAIN consumed :
                 consumed[k].tx_id = t /\ consumed[k].amount # None].client_id

\* the transactions the input may yield next: MaxFree unconstrained ones, a
\* deposit or a withdrawal with a fresh tx id or a dispute, resolve or
\* chargeback of an earlier tx id by the client of that id, then up to MaxFill
\* deposits of client 1
InputEvents ==
    IF Len(consumed) < MaxFree
    THEN { RawTransaction(v, c, nextTx, Some(10)) :
             v \in {"Deposit", "Withdrawal"}, c \in ClientIds }
         \cup { RawTransaction(v, TxClient(t), t, None) :
                  v \in {"Dispute", "Resolve", "Chargeback"}, t \in 1..(nextTx - 1) }
    ELSE IF Len(consumed) < MaxFree + MaxFill
    THEN { RawTransaction("Deposit", 1, nextTx, Some(10)) }
    ELSE {}

DispatchInit ==
    /\ tasks = <<>>
    /\ chans = <<>>
    /\ client_senders = <<>>
    /\ client_handles = <<>>
    /\ pc = "next"
    /\ cur = None
    /\ consumed = <<>>
    /\ applied = <<>>
    /\ joining = {}
    /\ result = <<>>
    /\ nextTx = 1

\* a mutant of Send: a send to a channel whose receiver is gone is not an error
Send_ignores_dropped(chs, i, transaction) ==
    IF chs[i].rx_dropped \/ Len(chs[i].buf) < chs[i].capacity
    THEN /\ pc' = "next" /\ cur' = None
         /\ chans' = [chs EXCEPT ![i] = IF @.rx_dropped THEN @ ELSE push(@, transaction)]
    ELSE /\ pc' = "send" /\ cur' = Some(transaction) /\ chans' = chs

\* sender.send(transaction).await on channel i of chs: an error when the
\* receiver is gone, done when there is room, suspended otherwise
Send(chs, i, transaction) ==
    IF chs[i].rx_dropped
    THEN /\ pc' = "err_send" /\ cur' = None /\ chans' = chs
    ELSE IF Len(chs[i].buf) < chs[i].capacity
    THEN /\ pc' = "next" /\ cur' = None
         /\ chans' = [chs EXCEPT ![i] = push(@, transaction)]
    ELSE /\ pc' = "send" /\ cur' = Some(transaction) /\ chans' = chs

\* a mutant of Dispatch: the Sender of a new client is not put into
\* client_senders
Dispatch_without_sender ==
    /\ pc = "next"
    /\ \E transaction \in InputEvents :
        LET c == transaction.client_id IN
        /\ consumed' = Append(consumed, transaction)
        /\ nextTx' = IF transaction.variant \in {"Deposit", "Withdrawal"}
                     THEN nextTx + 1 ELSE nextTx
        /\ IF IsVacant(client_handles, c)
           THEN LET i == Len(tasks) + 1 IN
                /\ tasks' = Append(tasks, NewClient(c))
                /\ applied' = Append(applied, <<>>)
                /\ client_senders' = client_senders
                /\ client_handles' = Insert(client_handles, c, i)
                /\ Send(Append(chans, channel(CHANNEL_CAPACITY)), i, transaction)
           ELSE IF c \in DOMAIN client_senders
           THEN /\ Send(chans, client_senders[c], transaction)
                /\ UNCHANGED <<tasks, applied, client_senders, client_handles>>
           ELSE /\ pc' = "err_client"
                /\ UNCHANGED <<tasks, applied, client_senders, client_handles, chans, cur>>
    /\ UNCHANGED <<joining, result>>

\* one iteration of the loop of process_transactions, up to the send
Dispatch ==
    /\ pc = "next"
    /\ \E transaction \in InputEvents :
        LET c == transaction.client_id IN
        /\ consumed' = Append(consumed, transaction)
        /\ nextTx' = IF transaction.variant \in {"Deposit", "Withdrawal"}
                     THEN nextTx + 1 ELSE nextTx
        /\ IF IsVacant(client_handles, c)
           THEN LET i == Len(tasks) + 1 IN
                /\ tasks' = Append(tasks, NewClient(c))
                /\ applied' = Append(applied, <<>>)
                /\ client_senders' = Insert(client_senders, c, i)
                /\ client_handles' = Insert(client_handles, c, i)
                /\ Send(Append(chans, channel(CHANNEL_CAPACITY)), i, transaction)
           ELSE IF c \in DOMAIN client_senders
           THEN /\ Send(chans, client_senders[c], transaction)
                /\ UNCHANGED <<tasks, applied, client_senders, client_handles>>
           ELSE /\ pc' = "err_client"
                /\ UNCHANGED <<tasks, applied, client_senders, client_handles, chans, cur>>
    /\ UNCHANGED <<joining, result>>

\* a suspended send completes: room has been made, or the receiver is gone
SendResume ==
    /\ pc = "send"
    /\ LET i == client_senders[cur[1].client_id] IN
       /\ chans[i].rx_dropped \/ Len(chans[i].buf) < chans[i].capacity
       /\ Send(chans, i, cur[1])
    /\ UNCHANGED <<tasks, applied, client_senders, client_handles, consumed, nextTx,
                   joining, result>>

\* a mutant of EndOfInput: client_senders.clear() is left out
EndOfInput_without_clear ==
    /\ pc = "next"
    /\ joining' = {client_handles[c] : c \in DOMAIN client_handles}
    /\ client_handles' = <<>>
    /\ pc' = "join"
    /\ UNCHANGED <<tasks, chans, client_senders, applied, cur, consumed, nextTx, result>>

\* the input ends: client_senders.clear() drops every Sender and
\* join_clients drains client_handles into join_all
EndOfInput ==
    /\ pc = "next"
    /\ chans' = [i \in DOMAIN chans |->
                    IF \E c \in DOMAIN client_senders : client_senders[c] = i
                    THEN [chans[i] EXCEPT !.tx_dropped = TRUE] ELSE chans[i]]
    /\ client_senders' = <<>>
    /\ joining' = {client_handles[c] : c \in DOMAIN client_handles}
    /\ client_handles' = <<>>
    /\ pc' = "join"
    /\ UNCHANGED <<tasks, applied, cur, consumed, nextTx, result>>

\* join_all completes when every drained handle has finished
JoinClients ==
    /\ pc = "join"
    /\ \A i \in joining : tasks[i].state = "done"
    /\ result' = [k \in 1..Cardinality(joining) |->
                    ClientOf(tasks[CHOOSE i \in joining :
                                      Cardinality({j \in joining : j < i}) = k - 1])]
    /\ pc' = "ok"
    /\ UNCHANGED <<tasks, chans, applied, client_senders, client_handles, cur, consumed,
                   nextTx, joining>>

\* worker i receives Some(transaction) from its channel and runs one iteration
\* of the loop of process_activity; when that returns, the receiver is dropped
WorkerRecv(i) ==
    /\ pc # "direct"
    /\ tasks[i].state = "running"
    /\ chans[i].buf # <<>>
    /\ LET transaction == front(chans[i])
           w == process_activity_next(tasks[i], transaction)
       IN  /\ tasks' = [tasks EXCEPT ![i] = w]
           /\ chans' = [chans EXCEPT ![i] =
                            IF w.state = "done" THEN drop_rx(pop(@)) ELSE pop(@)]
           /\ applied' = [applied EXCEPT ![i] =
                            IF tasks[i].locked THEN @ ELSE Append(@, transaction)]
    /\ UNCHANGED <<client_senders, client_handles, pc, cur, consumed, nextTx, joining,
                   result>>

\* worker i receives None: the channel is empty and every Sender is dropped
WorkerEnd(i) ==
    /\ pc # "direct"
    /\ tasks[i].state = "running"
    /\ chans[i].buf = <<>>
    /\ chans[i].tx_dropped
    /\ tasks' = [tasks EXCEPT ![i] = finish(@)]
    /\ chans' = [chans EXCEPT ![i] = drop_rx(@)]
    /\ UNCHANGED <<client_senders, client_handles, pc, cur, consumed, applied, nextTx,
                   joining, result>>

Dispatcher == Dispatch \/ SendResume \/ EndOfInput \/ JoinClients

Worker(i) == WorkerRecv(i) \/ WorkerEnd(i)

DispatchNext == Dispatcher \/ \E i \in DOMAIN tasks : Worker(i)

DispatchSpec == DispatchInit /\ [][DispatchNext]_vars

\* the executor polls every task that can run: the dispatcher and each worker
FairDispatchSpec ==
    /\ DispatchSpec
    /\ WF_vars(Dispatcher)
    /\ \A i \in 1..Cardinality(ClientIds) : WF_vars(i \in DOMAIN tasks /\ Worker(i))

----------------------------------------------------------------------------
(* Properties *)

\* the transactions of seq that carry client id c, in order
ForClient(seq, c) == SelectSeq(seq, LAMBDA t : t.client_id = c)

IsPrefix(s, t) == Len(s) <= Len(t) /\ \A k \in 1..Len(s) : s[k] = t[k]

\* the stored withdrawals with failed = true
FailedWithdrawals(w) ==
    {tx \in DOMAIN w.processed_transactions :
        /\ w.processed_transactions[tx].kind = "Withdrawal"
        /\ w.processed_transactions[tx].failed}

\* C1: in every reachable state of a client, total = available + held, for
\* the balances being computed and for the published ones, whatever events
\* (evictions and cascade reversals included) led there.
C1_TotalIsAvailablePlusHeld ==
    \A i \in DOMAIN tasks :
        /\ tasks[i].pending_total_balance =
               tasks[i].pending_available_balance + tasks[i].pending_held_balance
        /\ tasks[i].total_balance = tasks[i].available_balance + tasks[i].held_balance

\* a full window whose oldest entries were evicted, and a chargeback whose
\* cascade reversed a withdrawal
C1_Witness ==
    \E i \in DOMAIN tasks :
        /\ tasks[i].locked
        /\ Len(tasks[i].dispute_window) >= WINDOW_SIZE - 1
        /\ Head(tasks[i].dispute_window) > BurstBase + 1
        /\ \E tx \in FailedWithdrawals(tasks[i]) :
               \E k \in DOMAIN tasks[i].dispute_window : tasks[i].dispute_window[k] = tx

C3_PerClientOrder ==
    \A i \in DOMAIN tasks : IsPrefix(applied[i], ForClient(consumed, tasks[i].id))

\* two workers, one of which has applied two transactions and has more to come
C3_Witness ==
    /\ Len(tasks) = 2
    /\ \E i \in DOMAIN tasks :
          /\ Len(applied[i]) >= 2
          /\ Len(chans[i].buf) >= 2

\* C4: no two workers have the same client id, each worker has its own
\* channel, both maps send a client id to the worker of that id, and every
\* transaction queued for or applied by a worker carries the worker's id.
C4_OneWorkerPerClient ==
    /\ Len(chans) = Len(tasks)
    /\ \A i, j \in DOMAIN tasks : tasks[i].id = tasks[j].id => i = j
    /\ \A c \in DOMAIN client_senders :
          /\ c \in DOMAIN client_handles
          /\ client_handles[c] = client_senders[c]
          /\ tasks[client_senders[c]].id = c
    /\ \A i \in DOMAIN tasks :
          /\ \A k \in DOMAIN chans[i].buf : chans[i].buf[k].client_id = tasks[i].id
          /\ \A k \in DOMAIN applied[i] : applied[i][k].client_id = tasks[i].id

\* two workers, and later transactions of a client in the queue of its worker
C4_Witness ==
    /\ Len(tasks) = 2
    /\ \A i \in DOMAIN tasks : Len(applied[i]) + Len(chans[i].buf) >= 2

\* C5: process_transactions never returns an error, and when it returns Ok
\* it returns one snapshot for each client id of the input.
C5_ReturnsOkWithOneSnapshotPerClient ==
    /\ pc \notin {"err_send", "err_client"}
    /\ pc = "ok" =>
          /\ {result[k].id : k \in DOMAIN result} =
                 {consumed[k].client_id : k \in DOMAIN consumed}
          /\ \A k, l \in DOMAIN result : result[k].id = result[l].id => k = l

\* C6: under fair scheduling process_transactions eventually returns, with
\* every worker finished when it returns Ok (the queues were closed), and a
\* send suspended on a full queue eventually completes.
C6_EventuallyReturns ==
    /\ <>(\/ pc \in {"err_send", "err_client"}
          \/ pc = "ok" /\ \A i \in DOMAIN tasks : tasks[i].state = "done")
    /\ [](pc = "send" => <>(pc # "send"))

\* the dispatcher is suspended on a full queue
C6_Witness ==
    /\ pc = "send"
    /\ \E i \in DOMAIN chans : Len(chans[i].buf) = CHANNEL_CAPACITY

\* C7: each returned snapshot is the one process_activity computes alone on
\* the input transactions of that client.
C7_SnapshotIsSequentialRun ==
    pc = "ok" =>
       \A k \in DOMAIN result :
           result[k] = ClientOf(process_activity(NewClient(result[k].id),
                                                 ForClient(consumed, result[k].id)))

\* two snapshots are returned, one of a locked client
C7_Witness ==
    /\ pc = "ok"
    /\ Len(result) = 2
    /\ \E k \in DOMAIN result : result[k].locked
    /\ \E k \in DOMAIN result : result[k].available_balance > 0

\* C8: the window holds at most WINDOW_SIZE entries and processed holds at
\* most as many records as the window has entries plus the failed withdrawals.
C8_WindowAndProcessedBound ==
    \A i \in DOMAIN tasks :
        /\ Len(tasks[i].dispute_window) <= WINDOW_SIZE
        /\ Cardinality(DOMAIN tasks[i].processed_transactions) <=
               Len(tasks[i].dispute_window) + Cardinality(FailedWithdrawals(tasks[i]))

\* a full window after an eviction, with a failed withdrawal stored
C8_Witness ==
    \E i \in DOMAIN tasks :
        /\ Len(tasks[i].dispute_window) = WINDOW_SIZE
        /\ Head(tasks[i].dispute_window) > BurstBase + 1
        /\ FailedWithdrawals(tasks[i]) # {}

\* C9: processed never holds more records than the window capacity.
C9_ProcessedBoundedByWindow ==
    \A i \in DOMAIN tasks :
        Cardinality(DOMAIN tasks[i].processed_transactions) <= WINDOW_SIZE

\* C10: after an applied chargeback (the client is locked) and its cascade,
\* total >= 0.
C10_ChargebackLeavesTotalNonNegative ==
    \A i \in DOMAIN tasks : tasks[i].locked => tasks[i].pending_total_balance >= 0

----------------------------------------------------------------------------
(* Properties of the handlers of one event *)

\* the three balances a worker is computing
Balances(w) ==
    <<w.pending_available_balance, w.pending_held_balance, w.pending_total_balance>>

\* a worker that would hand the next transaction to process_transaction
Active(w) == w.state = "running" /\ ~w.locked

\* the state process_transaction hands to the handler of the event: the
\* oldest window entry is finalized first when the window is full
Admitted(w) ==
    IF Len(w.dispute_window) >= WINDOW_SIZE THEN finalize_transaction(w) ELSE w

\* a dispute, resolve or chargeback of tx id t sent by the worker's own client
Reference(variant, w, t) == RawTransaction(variant, w.id, t, None)

\* what a stored record has added to total: a failed withdrawal nothing
Contribution(rec) ==
    IF rec.kind = "Deposit" THEN rec.amount
    ELSE IF rec.failed THEN 0 ELSE 0 - rec.amount

RECURSIVE Sum(_, _)
Sum(f, S) ==
    IF S = {} THEN 0
    ELSE LET t == CHOOSE t \in S : TRUE IN f[t] + Sum(f, S \ {t})

\* C11: a withdrawal stored with failed = true stays failed, and a step that
\* changes or removes its record (a dispute, resolve or chargeback of it, its
\* eviction) moves no balance; every change of total is the sum of what the
\* records that are not failed withdrawals account for: a new record adds
\* its contribution, a withdrawal reversed by the cascade gives its amount
\* back, a chargeback takes the contribution of the record away; so a failed
\* withdrawal has contributed nothing to total.
C11_FailedWithdrawalMovesNothing ==
    [][\A i \in DOMAIN tasks :
          (i \in DOMAIN tasks' /\ tasks[i].state = "running") =>
             LET w == tasks[i]
                 w2 == tasks'[i]
                 P == w.processed_transactions
                 P2 == w2.processed_transactions
                 charged == {t \in DOMAIN P \cap DOMAIN P2 :
                                ~P[t].resolved /\ P2[t].resolved /\ ~w.locked /\ w2.locked}
                 delta == [t \in DOMAIN P \cup DOMAIN P2 |->
                             IF t \notin DOMAIN P THEN Contribution(P2[t])
                             ELSE IF t \notin DOMAIN P2 THEN 0
                             ELSE Contribution(P2[t]) - Contribution(P[t])
                                  - (IF t \in charged THEN Contribution(P[t]) ELSE 0)]
             IN  /\ \A t \in FailedWithdrawals(w) :
                       /\ t \in DOMAIN P2 => P2[t].kind = "Withdrawal" /\ P2[t].failed
                       /\ (t \notin DOMAIN P2 \/ P2[t] # P[t]) =>
                              Balances(w2) =
                                  Balances(IF w2.state = "running" THEN Admitted(w) ELSE w)
                 /\ w2.pending_total_balance - w.pending_total_balance =
                        Sum(delta, {t \in DOMAIN delta : delta[t] # 0})]_vars

\* a withdrawal refused for insufficient funds that was disputed and resolved,
\* and a withdrawal reversed by the cascade of a chargeback
C11_Witness ==
    \E i \in DOMAIN tasks :
        /\ tasks[i].locked /\ tasks[i].state = "running"
        /\ \E t \in FailedWithdrawals(tasks[i]) :
               \E k \in DOMAIN tasks[i].dispute_window : tasks[i].dispute_window[k] = t
        /\ \E t \in FailedWithdrawals(tasks[i]) :
               /\ tasks[i].processed_transactions[t].disputed
               /\ tasks[i].processed_transactions[t].resolved
               /\ \A k \in DOMAIN tasks[i].dispute_window : tasks[i].dispute_window[k] # t

\* the stored deposits and non-failed withdrawals in the given dispute state
Disputable(w, disputed, resolved) ==
    {t \in DOMAIN w.processed_transactions :
        LET rec == w.processed_transactions[t] IN
        /\ rec.disputed = disputed /\ rec.resolved = resolved
        /\ (rec.kind = "Deposit" \/ ~rec.failed)}

\* C12: a Dispute and then a Resolve of the same stored deposit or non-failed
\* withdrawal, sent by its client one after the other, leave available, held
\* and total as they were before the Dispute, and the client unlocked.
C12_DisputeThenResolveIsIdentity ==
    \A i \in DOMAIN tasks :
        Active(tasks[i]) =>
           \A t \in Disputable(tasks[i], FALSE, FALSE) :
               LET w == tasks[i]
                   a == process_activity_next(w, Reference("Dispute", w, t))
                   b == process_activity_next(a, Reference("Resolve", w, t))
               IN  Balances(b) = Balances(w) /\ ~b.locked

\* C13: a Dispute and then a Chargeback of the same stored deposit, sent by
\* its client one after the other, lock the client and leave total at its
\* value before the Dispute minus the amount of the deposit.
C13_DisputeThenChargebackOfDeposit ==
    \A i \in DOMAIN tasks :
        Active(tasks[i]) =>
           \A t \in Disputable(tasks[i], FALSE, FALSE) :
               LET w == tasks[i]
                   rec == w.processed_transactions[t]
                   a == process_activity_next(w, Reference("Dispute", w, t))
                   b == process_activity_next(a, Reference("Chargeback", w, t))
               IN  rec.kind = "Deposit" =>
                      /\ b.locked
                      /\ b.pending_total_balance = w.pending_total_balance - rec.amount

\* the explicit Resolve of tx id t, without the eviction that precedes an event
Resolved(w, t) == process_resolve(w, [client_id |-> w.id, tx_id |-> t], None)

OwnCreates(w, variant) ==
    {e \in CreateEvents :
        /\ e.variant = variant /\ e.client_id = w.id
        /\ e.amount # None /\ e.amount[1] >= 0}

InWindow(w, t) == \E k \in DOMAIN w.dispute_window : w.dispute_window[k] = t

\* the withdrawal e took the state with balances base to a: refused when
\* base's total is below the amount, applied otherwise
WithdrawalRule(base, a, e) ==
    LET amt == truncate_to_decimal_places(e.amount[1])
        t == e.tx_id
    IN  /\ t \in DOMAIN a.processed_transactions
        /\ a.processed_transactions[t].kind = "Withdrawal"
        /\ a.processed_transactions[t].amount = amt
        /\ a.locked = base.locked
        /\ IF base.pending_total_balance < amt
           THEN /\ a.processed_transactions[t].failed
                /\ ~InWindow(a, t)
                /\ Balances(a) = Balances(base)
           ELSE /\ ~a.processed_transactions[t].failed
                /\ a.dispute_window # <<>>
                /\ a.dispute_window[Len(a.dispute_window)] = t
                /\ Balances(a) = <<base.pending_available_balance - amt,
                                   base.pending_held_balance,
                                   base.pending_total_balance - amt>>

C16_WithdrawalNeedsAvailableFunds ==
    \A i \in DOMAIN tasks :
        Active(tasks[i]) =>
           \A e \in OwnCreates(tasks[i], "Withdrawal") :
               LET w == tasks[i]
                   amt == truncate_to_decimal_places(e.amount[1])
                   a == process_activity_next(w, e)
                   rec == a.processed_transactions[e.tx_id]
               IN  /\ amt > w.pending_available_balance =>
                          rec.failed /\ a.pending_total_balance = w.pending_total_balance
                   /\ ~rec.failed => a.pending_available_balance >= 0

\* the deposit e took the state with balances base to a
DepositRule(base, a, e) ==
    LET amt == truncate_to_decimal_places(e.amount[1])
        t == e.tx_id
    IN  /\ t \in DOMAIN a.processed_transactions
        /\ a.processed_transactions[t] =
               [kind |-> "Deposit", client_id |-> base.id, tx_id |-> t, amount |-> amt,
                disputed |-> FALSE, resolved |-> FALSE]
        /\ a.locked = base.locked
        /\ a.dispute_window # <<>>
        /\ a.dispute_window[Len(a.dispute_window)] = t
        /\ Balances(a) = <<base.pending_available_balance + amt,
                           base.pending_held_balance,
                           base.pending_total_balance + amt>>

\* C17 as stated: after an accepted deposit, available and total are those
\* before the event plus the amount and held is the one before the event.
C17_DepositAsStated ==
    \A i \in DOMAIN tasks :
        Active(tasks[i]) =>
           \A e \in OwnCreates(tasks[i], "Deposit") :
               DepositRule(tasks[i], process_activity_next(tasks[i], e), e)

\* C17, amended: an accepted deposit of amount a of the worker's own client
\* raises available and total by a from the values the window admission
\* that precedes it left, leaves held (as admitted) and locked unchanged,
\* stores its record under its tx id with disputed = resolved = false and
\* appends the tx id to the back of the admitted window.
C17_DepositAfterAdmission ==
    \A i \in DOMAIN tasks :
        Active(tasks[i]) =>
           \A e \in OwnCreates(tasks[i], "Deposit") :
               LET base == Admitted(tasks[i])
                   a == process_activity_next(tasks[i], e)
               IN  /\ DepositRule(base, a, e)
                   /\ a.dispute_window = Append(base.dispute_window, e.tx_id)

\* a deposit of a positive amount was applied after the window had become
\* full, and the entries older than the burst were evicted
C17_Witness ==
    \E i \in DOMAIN tasks :
        LET w == tasks[i] IN
        /\ Len(w.dispute_window) = WINDOW_SIZE
        /\ Head(w.dispute_window) > BurstBase
        /\ w.dispute_window[WINDOW_SIZE] \in DOMAIN w.processed_transactions
        /\ w.processed_transactions[w.dispute_window[WINDOW_SIZE]].kind = "Deposit"
        /\ w.processed_transactions[w.dispute_window[WINDOW_SIZE]].amount > 0

\* the amount a dispute of the stored record rec moves from available to
\* held: that of a deposit, minus that of a withdrawal, nothing if it failed
Held(rec) ==
    IF rec.kind = "Deposit" THEN rec.amount
    ELSE IF rec.failed THEN 0 ELSE 0 - rec.amount

\* C18: a Dispute of a stored record that is neither disputed nor resolved,
\* sent by its client, marks the record disputed and leaves total unchanged;
\* the amount of a deposit moves from available to held, that of a non-failed
\* withdrawal from held to available, that of a failed withdrawal not at all.
C18_DisputeRule ==
    \A i \in DOMAIN tasks :
        Active(tasks[i]) =>
           \A t \in DOMAIN tasks[i].processed_transactions :
               LET w == tasks[i]
                   rec == w.processed_transactions[t]
                   a == process_activity_next(w, Reference("Dispute", w, t))
               IN  (~rec.disputed /\ ~rec.resolved) =>
                      /\ t \in DOMAIN a.processed_transactions
                      /\ a.processed_transactions[t] = [rec EXCEPT !.disputed = TRUE]
                      /\ Balances(a) = <<w.pending_available_balance - Held(rec),
                                         w.pending_held_balance + Held(rec),
                                         w.pending_total_balance>>

\* C19: a Resolve of a stored record with disputed = true and resolved =
\* false, sent by its client, marks the record resolved and leaves total and
\* locked unchanged; the amount of a deposit moves from held to available,
\* that of a non-failed withdrawal from available to held, that of a failed
\* withdrawal not at all.
C19_ResolveRule ==
    \A i \in DOMAIN tasks :
        Active(tasks[i]) =>
           \A t \in DOMAIN tasks[i].processed_transactions :
               LET w == tasks[i]
                   rec == w.processed_transactions[t]
                   a == process_activity_next(w, Reference("Resolve", w, t))
               IN  (rec.disputed /\ ~rec.resolved) =>
                      /\ t \in DOMAIN a.processed_transactions
                      /\ a.processed_transactions[t] = [rec EXCEPT !.resolved = TRUE]
                      /\ a.locked = w.locked
                      /\ Balances(a) = <<w.pending_available_balance + Held(rec),
                                         w.pending_held_balance - Held(rec),
                                         w.pending_total_balance>>

\* C20: a Chargeback of a stored deposit or non-failed withdrawal with
\* disputed = true and resolved = false, sent by its client, marks the
\* record resolved and locks the client; held and total go down by the
\* amount of a deposit and up by that of a withdrawal, and available stays.
\* The cascade that may follow raises available and total by the same
\* amounts, so that held and total - available are as before the cascade;
\* there is no cascade when the total left by the chargeback is not negative.
C20_ChargebackRule ==
    \A i \in DOMAIN tasks :
        Active(tasks[i]) =>
           \A t \in Disputable(tasks[i], TRUE, FALSE) :
               LET w == tasks[i]
                   rec == w.processed_transactions[t]
                   a == process_activity_next(w, Reference("Chargeback", w, t))
               IN  /\ t \in DOMAIN a.processed_transactions
                   /\ a.processed_transactions[t].resolved
                   /\ a.locked
                   /\ a.pending_held_balance = w.pending_held_balance - Held(rec)
                   /\ a.pending_total_balance - a.pending_available_balance =
                          w.pending_total_balance - Held(rec) - w.pending_available_balance
                   /\ w.pending_total_balance - Held(rec) >= 0 =>
                          /\ a.pending_available_balance = w.pending_available_balance
                          /\ a.pending_total_balance = w.pending_total_balance - Held(rec)

----------------------------------------------------------------------------
(* Properties of the cascade, of rejected events and of eviction *)

\* what the cascade is to make of cb, the state a chargeback of tx id t has
\* left: among the window entries from that of t to the newest, the
\* candidates are the withdrawals that are (not failed and not disputed) or
\* resolved; a candidate is reversed when total plus the amounts of the newer
\* candidates is still negative; nothing else changes
Cascaded(cb, t) ==
    LET win == cb.dispute_window
        P == cb.processed_transactions
        from == {k \in DOMAIN win : win[k] = t /\ \A j \in 1..(k - 1) : win[j] # t}
        cand == {k \in DOMAIN win :
                    /\ \E p \in from : k >= p
                    /\ win[k] \in DOMAIN P
                    /\ P[win[k]].kind = "Withdrawal"
                    /\ \/ ~P[win[k]].failed /\ ~P[win[k]].disputed
                       \/ P[win[k]].resolved}
        amount == [k \in DOMAIN win |-> IF k \in cand THEN P[win[k]].amount ELSE 0]
        reversed == {k \in cand :
                        cb.pending_total_balance
                            + Sum(amount, {j \in cand : j > k}) < 0}
        back == Sum(amount, reversed)
    IN  [cb EXCEPT !.pending_available_balance = @ + back,
                   !.pending_total_balance = @ + back,
                   !.processed_transactions =
                       [x \in DOMAIN P |->
                           IF \E k \in reversed : win[k] = x
                           THEN [P[x] EXCEPT !.failed = TRUE] ELSE P[x]]]

\* C21: a Chargeback event ends in the state the cascade rule prescribes for
\* the state its chargeback has left: the entries from the charged-back tx
\* to the newest are visited newest first, exactly the visited withdrawals
\* that are (not failed and not disputed) or resolved are reversed, the visit
\* stops as soon as total >= 0, and everything else is left untouched.
C21_CascadeRule ==
    \A i \in DOMAIN tasks :
        Active(tasks[i]) =>
           \A t \in DOMAIN tasks[i].processed_transactions :
               LET w == tasks[i]
                   cb == process_chargeback(Admitted(w), [client_id |-> w.id, tx_id |-> t])
               IN  process_activity_next(w, Reference("Chargeback", w, t)) = Cascaded(cb, t)

\* a cascade that stopped early: a withdrawal was reversed and an older one,
\* newer than the charged-back deposit, was not
C21_Witness ==
    \E i \in DOMAIN tasks :
        LET w == tasks[i]
            P == w.processed_transactions
            win == w.dispute_window
        IN  /\ w.locked /\ w.state = "running"
            /\ w.pending_total_balance >= 0
            /\ \E c, k, l \in DOMAIN win :
                   /\ c < k /\ k < l
                   /\ P[win[c]].kind = "Deposit" /\ P[win[c]].disputed /\ P[win[c]].resolved
                   /\ P[win[k]].kind = "Withdrawal" /\ ~P[win[k]].failed
                   /\ ~P[win[k]].disputed /\ P[win[k]].amount > 0
                   /\ P[win[l]].kind = "Withdrawal" /\ P[win[l]].failed

\* C22: an event of any kind whose client field is not the id of the state
\* machine leaves the whole client state as it was, full window included.
C22_WrongClientChangesNothing ==
    \A i \in DOMAIN tasks :
        Active(tasks[i]) =>
           \A e \in CreateEvents \cup ReferenceEvents :
               e.client_id # tasks[i].id => process_activity_next(tasks[i], e) = tasks[i]

\* the referential events of the worker's own client that are to be rejected
\* in state w: a dispute of an unknown tx or of a record that is disputed or
\* resolved, a resolve or chargeback of an unknown tx or of a record that is
\* not disputed and unresolved
RejectedReferences(w) ==
    {e \in ReferenceEvents :
        /\ e.client_id = w.id /\ e.amount = None
        /\ \/ e.tx_id \notin DOMAIN w.processed_transactions
           \/ LET rec == w.processed_transactions[e.tx_id] IN
              IF e.variant = "Dispute" THEN rec.disputed \/ rec.resolved
              ELSE ~rec.disputed \/ rec.resolved}

\* C23: a semantically rejected referential event leaves the whole client
\* state as it was, full window included.
C23_RejectedReferenceChangesNothing ==
    \A i \in DOMAIN tasks :
        Active(tasks[i]) =>
           \A e \in RejectedReferences(tasks[i]) :
               process_activity_next(tasks[i], e) = tasks[i]

\* the malformed events: a deposit or withdrawal without an amount or with a
\* negative one, a dispute, resolve or chargeback with an amount
Malformed(e) ==
    IF e.variant \in {"Deposit", "Withdrawal"}
    THEN e.amount = None \/ e.amount[1] < 0
    ELSE e.amount # None

\* C24: a malformed event leaves the whole client state as it was.
C24_MalformedChangesNothing ==
    \A i \in DOMAIN tasks :
        Active(tasks[i]) =>
           \A e \in CreateEvents \cup ReferenceEvents :
               Malformed(e) => process_activity_next(tasks[i], e) = tasks[i]

\* C27: a Dispute, Resolve or Chargeback event never pops the window, never
\* removes a record and never resolves a record other than the one it names.
C27_ReferenceNeverEvicts ==
    \A i \in DOMAIN tasks :
        Active(tasks[i]) =>
           \A e \in ReferenceEvents :
               LET w == tasks[i]
                   a == process_activity_next(w, e)
               IN  /\ a.dispute_window = w.dispute_window
                   /\ DOMAIN a.processed_transactions = DOMAIN w.processed_transactions
                   /\ \A t \in DOMAIN w.processed_transactions \ {e.tx_id} :
                          /\ t \in DOMAIN a.processed_transactions
                          /\ a.processed_transactions[t].resolved =
                                 w.processed_transactions[t].resolved

----------------------------------------------------------------------------
(* Properties of the dispatcher's sends *)

\* the transaction the dispatcher is sending in a step that reads one from
\* the input or resumes a suspended send
Sending == IF pc = "send" THEN cur[1] ELSE consumed'[Len(consumed')]

\* the dispatcher takes a step that attempts a send
AttemptsSend ==
    \/ pc = "next" /\ consumed' # consumed
    \/ pc = "send" /\ pc' # "send"

\* C25: a send to a worker that has dropped its receiver makes
\* process_transactions return the error in that very step; an error is
\* returned for no other send; no snapshot is returned with it, and the
\* dispatcher does nothing after it.
C25_SendErrorReturnsNothing ==
    /\ [](pc = "err_send" => result = <<>>)
    /\ [][/\ pc = "err_send" =>
                 /\ pc' = "err_send" /\ result' = result /\ consumed' = consumed
                 /\ joining' = joining /\ client_senders' = client_senders
          /\ (AttemptsSend /\ Sending.client_id \in DOMAIN client_senders) =>
                 (pc' = "err_send" <=>
                     chans[client_senders[Sending.client_id]].rx_dropped)
          /\ (pc # "err_send" /\ pc' = "err_send") => AttemptsSend]_vars

\* process_transactions has returned the error of a send to a worker that
\* had completed, its client locked
C25_Witness ==
    /\ pc = "err_send"
    /\ result = <<>>
    /\ \E i \in DOMAIN tasks :
          /\ tasks[i].state = "done" /\ tasks[i].locked
          /\ chans[i].rx_dropped
          /\ Len(ForClient(consumed, tasks[i].id)) > Len(applied[i]) + 1

\* C26: no queue ever holds more than CHANNEL_CAPACITY transactions; a send
\* that finds its queue full (and the receiver alive) suspends the
\* dispatcher with the queues as they were; while it is suspended no input
\* is read, and it resumes by putting the suspended transaction at the back
\* of that queue.
C26_QueueBoundAndBackpressure ==
    /\ [](\A i \in DOMAIN chans : Len(chans[i].buf) <= CHANNEL_CAPACITY)
    /\ [][/\ consumed' # consumed => pc = "next"
          /\ pc = "send" => cur # None /\ cur[1].client_id \in DOMAIN client_senders
          /\ (pc = "next" /\ consumed' # consumed
                 /\ Sending.client_id \in DOMAIN client_senders) =>
                 LET ch == chans[client_senders[Sending.client_id]] IN
                 (~ch.rx_dropped /\ Len(ch.buf) = CHANNEL_CAPACITY) =>
                     pc' = "send" /\ cur' = Some(Sending) /\ chans' = chans
          /\ (pc = "send" /\ pc' = "next") =>
                 LET i == client_senders[cur[1].client_id] IN
                 /\ Len(chans[i].buf) < CHANNEL_CAPACITY
                 /\ chans' = [chans EXCEPT ![i].buf = Append(@, cur[1])]]_vars

\* the dispatcher is suspended on the send of the eleventh transaction of a
\* client whose worker has received none
C26_Witness ==
    /\ pc = "send"
    /\ cur # None
    /\ Len(consumed) = CHANNEL_CAPACITY + 1
    /\ Len(chans[client_senders[cur[1].client_id]].buf) = CHANNEL_CAPACITY
    /\ applied[client_senders[cur[1].client_id]] = <<>>

----------------------------------------------------------------------------
(* Properties of evicted and of resolved records *)

\* C28: a deposit that finds the window full evicts the oldest entry: its
\* record is removed, its amount goes back from held to available if it was
\* disputed and unresolved and no balance moves for it otherwise; a Dispute,
\* Resolve or Chargeback that names the evicted tx id afterwards changes
\* nothing.
C28_EvictionAndAfter ==
    \A i \in DOMAIN tasks :
        (Active(tasks[i]) /\ Len(tasks[i].dispute_window) = WINDOW_SIZE) =>
           \A e \in OwnCreates(tasks[i], "Deposit") :
               LET w == tasks[i]
                   h == Head(w.dispute_window)
                   rec == w.processed_transactions[h]
                   back == IF rec.disputed /\ ~rec.resolved THEN Held(rec) ELSE 0
                   amt == truncate_to_decimal_places(e.amount[1])
                   x == process_activity_next(w, e)
               IN  /\ h \notin DOMAIN x.processed_transactions
                   /\ ~InWindow(x, h)
                   /\ Balances(x) = <<w.pending_available_balance + back + amt,
                                      w.pending_held_balance - back,
                                      w.pending_total_balance + amt>>
                   /\ \A v \in {"Dispute", "Resolve", "Chargeback"} :
                          process_activity_next(x, Reference(v, x, h)) = x

C30_ChargebackOfRefusedWithdrawal ==
    \A i \in DOMAIN tasks :
        Active(tasks[i]) =>
           \A t \in FailedWithdrawals(tasks[i]) :
               LET w == tasks[i]
                   rec == w.processed_transactions[t]
                   a == process_activity_next(w, Reference("Chargeback", w, t))
               IN  (rec.disputed /\ ~rec.resolved) =>
                      /\ a.locked
                      /\ Balances(a) = Balances(w)
                      /\ \A u \in DOMAIN a.processed_transactions :
                             /\ u \in DOMAIN w.processed_transactions
                             /\ u # t => a.processed_transactions[u] =
                                             w.processed_transactions[u]

----------------------------------------------------------------------------
(* Properties of the numbers *)

\* x and y differ by less than 0.00005, half a unit of the fourth decimal
Near(x, y) ==
    /\ Less(Minus(x, y), f64_parse(5, 100000))
    /\ Less(Minus(y, x), f64_parse(5, 100000))

\* C31: the amounts taken in being the results of the 4-decimal truncation,
\* available, held and total are multiples of 0.0001 in every reachable
\* state, so that the truncation applied when a snapshot is written returns
\* each of them unchanged: to the f64 nearest to the same multiple of 0.0001,
\* less than half a unit of the fourth decimal away.
C31_TruncationKeepsBalances ==
    \A i \in DOMAIN tasks :
        \A b \in {tasks[i].pending_available_balance, tasks[i].pending_held_balance,
                  tasks[i].pending_total_balance, tasks[i].available_balance,
                  tasks[i].held_balance, tasks[i].total_balance} :
            Near(truncate_to_4_decimals(b), b)

----------------------------------------------------------------------------
(* Properties of the end of a client's run *)

\* C32: a worker stops when its stream has ended or its client is locked; the
\* step in which it stops applies no event, writes the pending available,
\* held and total into the outward fields of the client and empties
\* processed and the window; so a stopped client, and every snapshot that is
\* returned, carries the pending balances and no working memory.
C32_FinishPublishesAndClears ==
    /\ [](/\ \A i \in DOMAIN tasks :
               tasks[i].state = "done" =>
                  /\ tasks[i].processed_transactions = <<>>
                  /\ tasks[i].dispute_window = <<>>
                  /\ tasks[i].available_balance = tasks[i].pending_available_balance
                  /\ tasks[i].held_balance = tasks[i].pending_held_balance
                  /\ tasks[i].total_balance = tasks[i].pending_total_balance
           /\ \A k \in DOMAIN result :
                  /\ result[k].processed_transactions = <<>>
                  /\ result[k].dispute_window = <<>>)
    /\ [][\A i \in DOMAIN tasks :
             (tasks[i].state = "running" /\ tasks'[i].state = "done") =>
                /\ tasks[i].locked \/ (chans[i].buf = <<>> /\ chans[i].tx_dropped)
                /\ Balances(tasks'[i]) = Balances(tasks[i])
                /\ tasks'[i].locked = tasks[i].locked
                /\ <<tasks'[i].available_balance, tasks'[i].held_balance,
                      tasks'[i].total_balance>> = Balances(tasks[i])]_vars

\* two snapshots are returned: one of a client that stopped locked with
\* records stored, one of a client whose stream ended with money on the account
C32_Witness ==
    /\ pc = "ok"
    /\ \E k \in DOMAIN result : result[k].locked /\ result[k].total_balance = 0
    /\ \E k \in DOMAIN result : ~result[k].locked /\ result[k].total_balance > 0

----------------------------------------------------------------------------
(* Properties of the whole run of a client *)

\* C33: while the client is not locked, total >= 0; a step that takes total
\* below 0 is the chargeback of a stored deposit that was disputed and not
\* resolved, and it locks the client in the same step.
C33_UnlockedTotalNonNegative ==
    /\ [](\A i \in DOMAIN tasks :
             ~tasks[i].locked =>
                tasks[i].pending_total_balance >= 0 /\ tasks[i].total_balance >= 0)
    /\ [][\A i \in DOMAIN tasks :
             (i \in DOMAIN tasks' /\ tasks[i].pending_total_balance >= 0
                                  /\ tasks'[i].pending_total_balance < 0) =>
                /\ ~tasks[i].locked /\ tasks'[i].locked
                /\ \E t \in DOMAIN tasks[i].processed_transactions
                              \cap DOMAIN tasks'[i].processed_transactions :
                       /\ tasks[i].processed_transactions[t].kind = "Deposit"
                       /\ tasks[i].processed_transactions[t].disputed
                       /\ ~tasks[i].processed_transactions[t].resolved
                       /\ tasks'[i].processed_transactions[t].resolved]_vars

\* the chargeback of a deposit has left a negative total on a locked client
\* whose window is full
C33_Witness ==
    \E i \in DOMAIN tasks :
        /\ tasks[i].locked
        /\ tasks[i].pending_total_balance < 0
        /\ Len(tasks[i].dispute_window) >= WINDOW_SIZE - 1

\* the Chargeback events that process_chargeback rejects in state w: the tx
\* is unknown, its record is not disputed or is resolved, or the event
\* carries another client id than the record
RejectedChargebacks(w) ==
    {e \in ReferenceEvents :
        /\ e.variant = "Chargeback" /\ e.amount = None
        /\ \/ e.tx_id \notin DOMAIN w.processed_transactions
           \/ LET rec == w.processed_transactions[e.tx_id] IN
              ~rec.disputed \/ rec.resolved \/ e.client_id # rec.client_id}

\* C34: a rejected Chargeback reverses no withdrawal: no stored withdrawal
\* gets failed = true, the client is not locked and available, held and
\* total stay as they were.
C34_RejectedChargebackMovesNothing ==
    \A i \in DOMAIN tasks :
        Active(tasks[i]) =>
           \A e \in RejectedChargebacks(tasks[i]) :
               LET w == tasks[i]
                   a == process_activity_next(w, e)
               IN  /\ FailedWithdrawals(a) \subseteq FailedWithdrawals(w)
                   /\ ~a.locked
                   /\ Balances(a) = Balances(w)

\* C35: locked goes from false to true only in the step that applies a
\* Chargeback to a stored record that is disputed and not resolved; it never
\* goes back to false, and a locked client applies nothing more, so that at
\* most one Chargeback is applied in the run of a client.
C35_LockedOnlyByChargebackAndForGood ==
    /\ [](\A i \in DOMAIN tasks :
             Active(tasks[i]) =>
                \A e \in CreateEvents \cup ReferenceEvents :
                    LET w == tasks[i]
                        x == Admitted(w)
                        a == process_activity_next(w, e)
                    IN  a.locked =>
                           /\ e.variant = "Chargeback" /\ e.amount = None
                           /\ e.tx_id \in DOMAIN x.processed_transactions
                           /\ x.processed_transactions[e.tx_id].disputed
                           /\ ~x.processed_transactions[e.tx_id].resolved
                           /\ a.processed_transactions[e.tx_id].resolved)
    /\ [][\A i \in DOMAIN tasks :
             tasks[i].locked =>
                /\ i \in DOMAIN tasks'
                /\ tasks'[i].locked
                /\ Balances(tasks'[i]) = Balances(tasks[i])
                /\ \A t \in DOMAIN tasks'[i].processed_transactions :
                       /\ t \in DOMAIN tasks[i].processed_transactions
                       /\ tasks'[i].processed_transactions[t] =
                              tasks[i].processed_transactions[t]]_vars

\* a locked client that has stopped on a later event, after one Chargeback had
\* been applied while another record was disputed and not resolved
C35_Witness ==
    \E i \in DOMAIN tasks :
        /\ tasks[i].locked /\ tasks[i].state = "done"
        /\ tasks[i].held_balance # 0
        /\ nextTx > 2

\* the stored records whose dispute is open
OpenDisputes(w) ==
    {t \in DOMAIN w.processed_transactions :
        w.processed_transactions[t].disputed /\ ~w.processed_transactions[t].resolved}

\* the amounts of the stored deposits whose dispute is open, minus those of
\* the stored non-failed withdrawals whose dispute is open
HeldByOpenDisputes(w) ==
    Sum([t \in OpenDisputes(w) |-> Held(w.processed_transactions[t])], OpenDisputes(w))

\* C36, as stated: in every reachable state, held is the sum of the amounts
\* of the stored deposits that are disputed and unresolved minus that of the
\* stored non-failed withdrawals that are disputed and unresolved; so held = 0
\* when no stored record has an open dispute.
C36_HeldAsStated ==
    \A i \in DOMAIN tasks :
        tasks[i].pending_held_balance = HeldByOpenDisputes(tasks[i])

\* C36, amended: the same, in every state in which the worker of the client
\* has not stopped. (When it stops, the records are discarded and held is
\* published with the disputes that were open.)
C36_HeldWhileRunning ==
    \A i \in DOMAIN tasks :
        tasks[i].state = "running" =>
           tasks[i].pending_held_balance = HeldByOpenDisputes(tasks[i])

\* the oldest entry of a full window has been evicted and the dispute of the
\* next one is open
C36_Witness ==
    \E i \in DOMAIN tasks :
        /\ tasks[i].state = "running"
        /\ Len(tasks[i].dispute_window) = WINDOW_SIZE - 1
        /\ Head(tasks[i].dispute_window) = 2
        /\ 2 \in OpenDisputes(tasks[i])
        /\ tasks[i].pending_held_balance # 0

----------------------------------------------------------------------------
(* Properties of the errors of the dispatcher *)

\* C37: while the input is being dispatched, the receiver of a queue is gone
\* only when the worker has stopped on a client locked by a chargeback; so
\* a send fails, and process_transactions returns the send error, only for
\* such a client, and never while no client is locked.
C37_SendErrorOnlyForLockedClient ==
    /\ \A i \in DOMAIN tasks :
           (pc \in {"next", "send", "err_send"} /\ chans[i].rx_dropped) =>
               tasks[i].locked /\ tasks[i].state = "done"
    /\ pc = "err_send" =>
           LET i == client_senders[consumed[Len(consumed)].client_id]
           IN  /\ chans[i].rx_dropped
               /\ tasks[i].locked /\ tasks[i].state = "done"
               /\ \E k \in DOMAIN applied[i] : applied[i][k].variant = "Chargeback"

\* the send error is returned for a deposit that follows the chargeback, after
\* earlier deposits had still been enqueued
C37_Witness ==
    /\ pc = "err_send"
    /\ Len(consumed) > MaxFree + 1
    /\ consumed[Len(consumed)].variant = "Deposit"

----------------------------------------------------------------------------
(* Properties of the working memory *)

\* C38: tx ids being unique, while the client is not locked the window holds
\* no id twice, every id in the window has a record in processed that is
\* not failed, and every record of processed that is not in the window is a
\* withdrawal with failed = true.
C38_WindowAndProcessedAgree ==
    \A i \in DOMAIN tasks :
        ~tasks[i].locked =>
           LET w == tasks[i]
               ids == {w.dispute_window[k] : k \in DOMAIN w.dispute_window}
               failed == FailedWithdrawals(w)
           IN  /\ Cardinality(ids) = Len(w.dispute_window)
               /\ ids \subseteq DOMAIN w.processed_transactions
               /\ ids \cap failed = {}
               /\ (DOMAIN w.processed_transactions) \ ids \subseteq failed

\* an unlocked client after an eviction from a full window, with a refused
\* withdrawal stored and a disputed record in the window
C38_Witness ==
    \E i \in DOMAIN tasks :
        /\ ~tasks[i].locked /\ tasks[i].state = "running"
        /\ Len(tasks[i].dispute_window) = WINDOW_SIZE - 1
        /\ Head(tasks[i].dispute_window) > BurstBase
        /\ FailedWithdrawals(tasks[i]) # {}

\* C39: in every reachable state, every stored record with resolved = true
\* has disputed = true.
C39_ResolvedImpliesDisputed ==
    \A i \in DOMAIN tasks :
        \A t \in DOMAIN tasks[i].processed_transactions :
            tasks[i].processed_transactions[t].resolved =>
                tasks[i].processed_transactions[t].disputed

\* one record has been resolved by a Resolve, another by the Chargeback that
\* locked the client, and a third one is neither disputed nor resolved
C39_Witness ==
    \E i \in DOMAIN tasks :
        LET P == tasks[i].processed_transactions IN
        /\ tasks[i].locked
        /\ Cardinality({t \in DOMAIN P : P[t].resolved}) >= 2
        /\ \E t \in DOMAIN P : ~P[t].disputed /\ ~P[t].resolved

\* C40: while the input is being dispatched, client_senders and
\* client_handles hold the same client ids (after the input both are
\* empty), and process_transactions never returns the ClientError.
C40_MapsAgreeAndNoClientError ==
    /\ DOMAIN client_senders = DOMAIN client_handles
    /\ pc # "err_client"

\* the whole input has been dispatched to two workers and both maps hold
\* the two client ids
C40_Witness ==
    /\ pc = "next"
    /\ Len(consumed) = MaxFree + MaxFill
    /\ DOMAIN client_handles = ClientIds
    /\ DOMAIN client_senders = ClientIds
====
